---- MODULE Spec2Model ----
(***************************************************************************)
(* Quarter Change Highlighter (src/Compare.py): highlight_q2_changes and   *)
(* its helpers, as a state machine over the two workbooks on disk.         *)
(*                                                                         *)
(* Text is a sequence of one-character strings; the empty string is <<>>.  *)
(* None (an empty openpyxl cell) and NaN (an empty pandas cell) are the    *)
(* value NoneV.  A workbook has one sheet of NumCols columns; a sheet is a *)
(* record of three grids, rows first, row 1 being the header row:          *)
(*   value : the loaded cell values,                                       *)
(*   fill  : the cell fills ("none", "blue" = FF94DCF8, "pink" = FFED8EDA),*)
(*   rich  : the CellRichText put in the cell by apply_word_diff, <<>>     *)
(*           when the cell still holds its loaded value.                   *)
(* Headers of one sheet are pairwise distinct (pandas renames duplicates,  *)
(* which is outside this model).                                           *)
(***************************************************************************)
EXTENDS Integers, Sequences, FiniteSets, TLC

\* ------------------------------------------------------------------ bounds
MaxRows2 == 2     \* data rows of the Second workbook in the key scenarios
MaxRows1 == 2     \* data rows of the First workbook in the key scenarios
MaxLetters == 2   \* length of the column selector in the value scenarios
MaxSelector == 3  \* length of the column selector in the selector scenarios
MaxAsks == 3      \* prompts for the ministry in one run of Download.py
MaxQueryRows == 2 \* rows the query of Download.py returns
MaxLen == 3       \* length of the texts given to apply_word_diff alone

\* ----------------------------------------------------------- text helpers
NoneV == <<"<None>">>
EmptyStr == <<>>

Whitespace == {" ", "\t", "\n"}
UpperLetters == <<"A","B","C","D","E","F","G","H","I","J","K","L","M",
                  "N","O","P","Q","R","S","T","U","V","W","X","Y","Z">>
LowerLetters == <<"a","b","c","d","e","f","g","h","i","j","k","l","m",
                  "n","o","p","q","r","s","t","u","v","w","x","y","z">>
Digits == <<"0","1","2","3","4","5","6","7","8","9">>

Range(s) == {s[i] : i \in DOMAIN s}

\* str.lower() on one character
lower_char(c) ==
    IF c \in Range(UpperLetters)
    THEN LowerLetters[CHOOSE i \in DOMAIN UpperLetters : UpperLetters[i] = c]
    ELSE c

lower(s) == [i \in DOMAIN s |-> lower_char(s[i])]

\* the character class [a-z0-9]
IsAlnumLower(c) == c \in Range(LowerLetters) \cup Range(Digits)

RECURSIVE lstrip(_, _)
lstrip(s, chars) ==
    IF s # <<>> /\ Head(s) \in chars THEN lstrip(Tail(s), chars) ELSE s

RECURSIVE rstrip(_, _)
rstrip(s, chars) ==
    IF s # <<>> /\ s[Len(s)] \in chars
    THEN rstrip(SubSeq(s, 1, Len(s) - 1), chars)
    ELSE s

\* str.strip() with chars = Whitespace, str.strip("_") with chars = {"_"}
strip(s, chars) == rstrip(lstrip(s, chars), chars)

\* re.sub(r"\s+", " ", s)
RECURSIVE sub_whitespace(_)
sub_whitespace(s) ==
    IF s = <<>> THEN <<>>
    ELSE IF Head(s) \in Whitespace
         THEN IF Len(s) > 1 /\ s[2] \in Whitespace
              THEN sub_whitespace(Tail(s))
              ELSE <<" ">> \o sub_whitespace(Tail(s))
         ELSE <<Head(s)>> \o sub_whitespace(Tail(s))

\* re.sub(r"[^a-z0-9]+", "_", s)
RECURSIVE sub_non_alnum(_)
sub_non_alnum(s) ==
    IF s = <<>> THEN <<>>
    ELSE IF ~IsAlnumLower(Head(s))
         THEN IF Len(s) > 1 /\ ~IsAlnumLower(s[2])
              THEN sub_non_alnum(Tail(s))
              ELSE <<"_">> \o sub_non_alnum(Tail(s))
         ELSE <<Head(s)>> \o sub_non_alnum(Tail(s))

\* the index of the first whitespace character of s, Len(s) + 1 when none
FirstSpace(s) ==
    IF \E i \in DOMAIN s : s[i] \in Whitespace
    THEN CHOOSE i \in DOMAIN s :
            /\ s[i] \in Whitespace
            /\ \A j \in 1..(i - 1) : s[j] \notin Whitespace
    ELSE Len(s) + 1

\* str.split(): the maximal runs of non-whitespace characters, in order
RECURSIVE split(_)
split(s) ==
    LET t == lstrip(s, Whitespace)
        n == FirstSpace(t)
    IN  IF t = <<>> THEN <<>>
        ELSE <<SubSeq(t, 1, n - 1)>> \o split(SubSeq(t, n, Len(t)))

RECURSIVE Concat(_)
Concat(ss) == IF ss = <<>> THEN <<>> ELSE Head(ss) \o Concat(Tail(ss))

\* ------------------------------------------------------ Compare.py helpers
WORD_DIFF_COLUMNS == {"O", "S", "T"}

normalize_colname(name) ==
    IF name = NoneV THEN EmptyStr
    ELSE LET s == lower(strip(sub_whitespace(name), Whitespace))
         IN  strip(sub_non_alnum(s), {"_"})

\* openpyxl.utils.column_index_from_string, for one-letter columns
column_index_from_string(L) ==
    CHOOSE i \in DOMAIN UpperLetters : UpperLetters[i] = L

NumCols == column_index_from_string("O")

\* str(i) for 0 <= i < 100
IntToStr(i) ==
    IF i < 10 THEN <<Digits[i + 1]>>
    ELSE <<Digits[(i \div 10) + 1], Digits[(i % 10) + 1]>>

\* the name pandas gives the column under an empty header cell
Unnamed(i) == <<"U","n","n","a","m","e","d",":"," ">> \o IntToStr(i)

\* the last sheet row holding a value (pandas drops the empty rows after it)
LastRowWithData(sheet) ==
    LET full == {i \in DOMAIN sheet.value :
                    \E c \in DOMAIN sheet.value[i] : sheet.value[i][c] # NoneV}
    IN  IF full = {} THEN 0 ELSE CHOOSE i \in full : \A j \in full : j <= i

\* pd.read_excel(path, dtype=str): a DataFrame of the sheet, header in row 1
read_df(sheet) ==
    IF sheet.value = <<>> THEN [columns |-> <<>>, rows |-> <<>>]
    ELSE [columns |-> [c \in DOMAIN sheet.value[1] |->
                         IF sheet.value[1][c] = NoneV THEN Unnamed(c - 1)
                         ELSE sheet.value[1][c]],
          rows |-> SubSeq(sheet.value, 2, LastRowWithData(sheet))]

InColumns(df, header) == \E c \in DOMAIN df.columns : df.columns[c] = header

\* row.get(header, ""): the row's cell under the named column
row_get(df, row, header) ==
    IF InColumns(df, header)
    THEN row[CHOOSE c \in DOMAIN df.columns : df.columns[c] = header]
    ELSE EmptyStr

to_str(x) == IF x = NoneV THEN EmptyStr ELSE strip(x, Whitespace)

\* str(CellRichText): the blocks' texts joined
rich_str(rt) == Concat([i \in DOMAIN rt |-> rt[i].text])

\* pd.isna(CellRichText) is an array of one flag per block; "if" on an array
\* of two or more flags raises ValueError
to_str_raises(rt) == Len(rt) >= 2

header_from_letter(ws, letter) ==
    LET v == ws.value[1][column_index_from_string(letter)]
    IN  IF v = NoneV THEN EmptyStr ELSE v

\* a dict: a function on its set of keys
EmptyDict == <<>>
DictSet(d, k, v) == [x \in (DOMAIN d) \cup {k} |-> IF x = k THEN v ELSE d[x]]
DictGet(d, k, default) == IF k \in DOMAIN d THEN d[k] ELSE default

\* lookup_store with "if key and key not in lookup": the first row of a key stays
lookup_store_keep_first(lookup, key, row) ==
    IF key # EmptyStr /\ key \notin DOMAIN lookup THEN DictSet(lookup, key, row) ELSE lookup

\* build_lookup, one iteration of "for _, row in df.iterrows()"
lookup_store(lookup, key, row) ==
    IF key # EmptyStr THEN DictSet(lookup, key, row) ELSE lookup

RECURSIVE build_lookup_rows(_, _, _, _)
build_lookup_rows(df, key_header, i, lookup) ==
    IF i > Len(df.rows) THEN lookup
    ELSE build_lookup_rows(df, key_header, i + 1,
            lookup_store(lookup, to_str(row_get(df, df.rows[i], key_header)),
                         df.rows[i]))

build_lookup(df, key_header) ==
    IF ~InColumns(df, key_header) THEN EmptyDict
    ELSE build_lookup_rows(df, key_header, 1, EmptyDict)

RECURSIVE get_headers_for_letters(_, _)
get_headers_for_letters(ws, letters) ==
    IF letters = <<>> THEN EmptyDict
    ELSE LET L == letters[Len(letters)]
             header_cell == ws.value[1][column_index_from_string(L)]
         IN  DictSet(get_headers_for_letters(ws, SubSeq(letters, 1, Len(letters) - 1)),
                     L, IF header_cell # NoneV THEN header_cell ELSE EmptyStr)

\* {normalize_colname(c): c for c in cols}: a later column replaces an earlier one
RECURSIVE norm_map(_)
norm_map(cols) ==
    IF cols = <<>> THEN EmptyDict
    ELSE DictSet(norm_map(SubSeq(cols, 1, Len(cols) - 1)),
                 normalize_colname(cols[Len(cols)]), cols[Len(cols)])

\* match_header falling back to the first baseline column
match_header_first_column(df_q1, h) ==
    IF InColumns(df_q1, h) THEN h
    ELSE DictGet(norm_map(df_q1.columns), normalize_colname(h), df_q1.columns[1])

\* find_matching_headers_in_q1, the body of "for L, h in q2_headers.items()"
match_header(df_q1, h) ==
    IF InColumns(df_q1, h) THEN h
    ELSE DictGet(norm_map(df_q1.columns), normalize_colname(h), h)

find_matching_headers_in_q1(df_q1, q2_headers) ==
    [L \in DOMAIN q2_headers |-> match_header(df_q1, q2_headers[L])]

\* find_key_header_q1 with the fallback of find_matching_headers_in_q1: the
\* header itself when it is missing
find_key_header_q1_fallback(df_q1, key_header_q2) ==
    IF InColumns(df_q1, key_header_q2) THEN key_header_q2
    ELSE DictGet(norm_map(df_q1.columns), normalize_colname(key_header_q2), key_header_q2)

\* find_key_header_q1 looking the normalized name up first
find_key_header_q1_normalized_first(df_q1, key_header_q2) ==
    DictGet(norm_map(df_q1.columns), normalize_colname(key_header_q2), NoneV)

\* the key header of the First workbook, NoneV when it cannot be found
find_key_header_q1(df_q1, key_header_q2) ==
    IF InColumns(df_q1, key_header_q2) THEN key_header_q2
    ELSE DictGet(norm_map(df_q1.columns), normalize_colname(key_header_q2), NoneV)

\* diff_block marking a token the same when the old text holds it anywhere
diff_block_any_position(old_tokens, new_tokens, i) ==
    [red  |-> new_tokens[i] \notin Range(old_tokens),
     text |-> IF i < Len(new_tokens) THEN new_tokens[i] \o <<" ">> ELSE new_tokens[i]]

\* apply_word_diff: the CellRichText put in the cell
diff_block(old_tokens, new_tokens, i) ==
    [red  |-> ~(i <= Len(old_tokens) /\ new_tokens[i] = old_tokens[i]),
     text |-> IF i < Len(new_tokens) THEN new_tokens[i] \o <<" ">> ELSE new_tokens[i]]

apply_word_diff(old_text, new_text) ==
    LET old_tokens == split(old_text)
        new_tokens == split(new_text)
    IN  [i \in DOMAIN new_tokens |-> diff_block(old_tokens, new_tokens, i)]

\* ---------------------------------------------------------------- os.path
\* the last index of ch in s, 0 when s does not hold it
LastIndexOf(s, ch) ==
    LET at == {i \in DOMAIN s : s[i] = ch}
    IN  IF at = {} THEN 0 ELSE CHOOSE i \in at : \A j \in at : j <= i

basename(p) == SubSeq(p, LastIndexOf(p, "/") + 1, Len(p))

dirname(p) ==
    LET head == SubSeq(p, 1, LastIndexOf(p, "/"))
    IN  IF head # <<>> /\ Range(head) # {"/"} THEN rstrip(head, {"/"}) ELSE head

\* os.path.splitext of a name without separators: the extension starts at the
\* last dot, unless only dots come before it
splitext(p) ==
    LET dotIndex == LastIndexOf(p, ".")
    IN  IF dotIndex > 0 /\ \E i \in 1..(dotIndex - 1) : p[i] # "."
        THEN <<SubSeq(p, 1, dotIndex - 1), SubSeq(p, dotIndex, Len(p))>>
        ELSE <<p, EmptyStr>>

join(a, b) ==
    IF a = <<>> \/ a[Len(a)] = "/" THEN a \o b ELSE a \o <<"/">> \o b

Highlighted == <<" (change highlighted)">>

\* lines 213-216: the output path beside the Second workbook
out_path(path) ==
    LET q2_dir == dirname(path)
        q2_base == basename(path)
        name == splitext(q2_base)[1]
        ext == splitext(q2_base)[2]
    IN  join(q2_dir, name \o Highlighted \o ext)

\* ------------------------------------------------------------------ state
VARIABLES
    pc,                     \* "start", "scan", "done", "error"; "idle" when not run
    err,                    \* the exception raised, "" when none
    q1_path, q2_path,       \* the arguments of highlight_q2_changes
    target_letters,
    fs,                     \* the files on disk: path -> sheet, NoFile when absent
    ws,                     \* the loaded sheet of the Second workbook
    key_header_q2, key_header_q1,
    df_q1, df_q2,
    q1_lookup,
    q2_headers_by_letter, q1_headers_by_letter,
    r,                      \* the sheet row the scan is at
    result,                 \* per sheet row: the branch the scan took for it
    old_text, new_text,     \* apply_word_diff on its own: its arguments,
    cell_value,             \*   the value it leaves in the cell,
    diff_pc,                \*   "call" before and "return" after it
    dl_pc,                  \* Download.py: the statement the script is at
    ministry,               \* its global: the last answer to the prompt
    asks,                   \* the number of prompts shown so far
    selected_ministry,      \* what get_ministry returned
    boxes, printed,         \* the message boxes shown and the lines printed
    template_path, output_path,
    dl_files,               \* the paths of the files on disk
    df,                     \* the rows of the query, by their Ministry
    excel_rows,             \* the rows written to the output workbook
    steps                   \* the sections after the selection run so far

vars == <<pc, err, q1_path, q2_path, target_letters, fs, ws, key_header_q2,
          key_header_q1, df_q1, df_q2, q1_lookup, q2_headers_by_letter,
          q1_headers_by_letter, r, result, old_text, new_text, cell_value, diff_pc,
          dl_pc, ministry, asks, selected_ministry, boxes, printed, template_path,
          output_path, dl_files, df, excel_rows, steps>>

run_vars == <<pc, err, q1_path, q2_path, target_letters, fs, ws, key_header_q2,
              key_header_q1, df_q1, df_q2, q1_lookup, q2_headers_by_letter,
              q1_headers_by_letter, r, result>>

diff_vars == <<old_text, new_text, cell_value, diff_pc>>

dl_vars == <<dl_pc, ministry, asks, selected_ministry, boxes, printed, template_path,
             output_path, dl_files, df, excel_rows, steps>>

Unset == <<"<unset>">>

\* Download.py not run
DownloadIdle ==
    /\ dl_pc = "idle"
    /\ ministry = Unset
    /\ asks = 0
    /\ selected_ministry = Unset
    /\ boxes = <<>>
    /\ printed = <<>>
    /\ template_path = Unset
    /\ output_path = Unset
    /\ dl_files = {}
    /\ df = <<>>
    /\ excel_rows = <<>>
    /\ steps = <<>>

NoFile == [value |-> <<>>, fill |-> <<>>, rich |-> <<>>]
NoFrame == [columns |-> <<>>, rows |-> <<>>]

max_row(sheet) == Len(sheet.value)
max_column(sheet) == IF sheet.value = <<>> THEN 0 ELSE Len(sheet.value[1])

Pending == [kind |-> "Pending", cells |-> <<>>]

\* ------------------------------------------------- the scan of one sheet row
\* classify with the two tests in the other order
classify_changed_first(q1_val, q2_val) ==
    IF q2_val # q1_val THEN "Changed"
    ELSE IF q1_val # EmptyStr /\ q2_val = EmptyStr THEN "Cleared"
    ELSE "Unchanged"

\* classify taking a value beside an empty baseline value for no change
classify_skip_blank_baseline(q1_val, q2_val) ==
    IF q1_val # EmptyStr /\ q2_val = EmptyStr THEN "Cleared"
    ELSE IF q1_val # EmptyStr /\ q2_val # q1_val THEN "Changed"
    ELSE "Unchanged"

\* lines 202-206
classify(q1_val, q2_val) ==
    IF q1_val # EmptyStr /\ q2_val = EmptyStr THEN "Cleared"
    ELSE IF q2_val # q1_val THEN "Changed"
    ELSE "Unchanged"

\* is_new_project without the test of the key
is_new_project_any_missing(key_val, lookup) == key_val \notin DOMAIN lookup

\* line 179
is_new_project(key_val, lookup) ==
    key_val # EmptyStr /\ key_val \notin DOMAIN lookup

\* wants_word_diff without the test of the column letter
wants_word_diff_any_column(L, q2_val) == q2_val # EmptyStr

\* line 209
wants_word_diff(L, q2_val) == L \in WORD_DIFF_COLUMNS /\ q2_val # EmptyStr

\* lines 194-199: the First workbook's value for the column at letter L
q1_value(q1_row, L) ==
    LET q2_header == DictGet(q2_headers_by_letter, L, NoneV)
        q1_header == DictGet(q1_headers_by_letter, L, q2_header)
    IN  IF InColumns(df_q1, q1_header)
        THEN to_str(row_get(df_q1, q1_row, q1_header))
        ELSE EmptyStr

\* compare_cell filling the cell whenever it is not Cleared
compare_cell_fill_unchanged(rs, values, q1_row, L) ==
    LET col_idx == column_index_from_string(L)
    IN  IF rs.raised THEN rs
        ELSE IF rs.rich[col_idx] # <<>> /\ to_str_raises(rs.rich[col_idx])
        THEN [rs EXCEPT !.raised = TRUE]
        ELSE
          LET q2_val == IF rs.rich[col_idx] # <<>>
                        THEN strip(rich_str(rs.rich[col_idx]), Whitespace)
                        ELSE to_str(values[col_idx])
              q1_val == IF InColumns(df_q1, DictGet(q1_headers_by_letter, L, NoneV))
                        THEN to_str(row_get(df_q1, q1_row, DictGet(q1_headers_by_letter, L, NoneV)))
                        ELSE EmptyStr
              c == IF q1_val # EmptyStr /\ q2_val = EmptyStr THEN "Cleared"
                   ELSE IF q2_val # q1_val THEN "Changed" ELSE "Unchanged"
          IN  [fill |-> [rs.fill EXCEPT ![col_idx] = IF c = "Cleared" THEN "pink" ELSE "blue"],
               rich |-> [rs.rich EXCEPT ![col_idx] =
                            IF c = "Changed" /\ L \in WORD_DIFF_COLUMNS /\ q2_val # EmptyStr
                            THEN apply_word_diff(q1_val, q2_val) ELSE @],
               cells |-> Append(rs.cells, [letter |-> L, cls |-> c]),
               raised |-> FALSE]

\* lines 191-210, one iteration of "for L in target_letters" on the row state
\* rs = [fill, rich, cells, raised]; values is the row's loaded values
compare_cell(rs, values, q1_row, L) ==
    LET col_idx == column_index_from_string(L)
    IN  IF rs.raised THEN rs
        ELSE IF rs.rich[col_idx] # <<>> /\ to_str_raises(rs.rich[col_idx])
        THEN [rs EXCEPT !.raised = TRUE]
        ELSE
          LET q2_val == IF rs.rich[col_idx] # <<>>
                        THEN strip(rich_str(rs.rich[col_idx]), Whitespace)
                        ELSE to_str(values[col_idx])
              q1_val == q1_value(q1_row, L)
              c == classify(q1_val, q2_val)
          IN  [fill |-> [rs.fill EXCEPT ![col_idx] =
                            IF c = "Cleared" THEN "pink"
                            ELSE IF c = "Changed" THEN "blue" ELSE @],
               rich |-> [rs.rich EXCEPT ![col_idx] =
                            IF c = "Changed" /\ wants_word_diff(L, q2_val)
                            THEN apply_word_diff(q1_val, q2_val) ELSE @],
               cells |-> Append(rs.cells, [letter |-> L, cls |-> c]),
               raised |-> FALSE]

\* compare_letters leaving the loop after the first letter
compare_letters_first_only(rs, values, q1_row, letters) ==
    IF letters = <<>> THEN rs ELSE compare_cell(rs, values, q1_row, Head(letters))

RECURSIVE compare_letters(_, _, _, _)
compare_letters(rs, values, q1_row, letters) ==
    IF letters = <<>> THEN rs
    ELSE compare_letters(compare_cell(rs, values, q1_row, Head(letters)),
                         values, q1_row, Tail(letters))

\* lines 173-210, one iteration of "for r in range(2, max_row + 1)":
\* [fill, rich: the row's cells after it; kind, cells: the branch taken and the
\* classes given; raised: whether it ended in an exception]
scan_row(row) ==
    LET df_idx == row - 2
        same == [fill |-> ws.fill[row], rich |-> ws.rich[row], cells |-> <<>>, raised |-> FALSE]
    IN  IF ~(0 <= df_idx /\ df_idx < Len(df_q2.rows))
        THEN [kind |-> "NotLoaded"] @@ same
        ELSE
          LET key_val == to_str(row_get(df_q2, df_q2.rows[df_idx + 1], key_header_q2))
          IN  IF is_new_project(key_val, q1_lookup)
              THEN [kind |-> "NewRow"] @@
                   [same EXCEPT !.fill = [c \in 1..max_column(ws) |-> "blue"]]
              ELSE IF key_val \in DOMAIN q1_lookup
              THEN [kind |-> "Compared"] @@
                   compare_letters(same, ws.value[row], q1_lookup[key_val], target_letters)
              ELSE [kind |-> "NoMatch"] @@ same

\* ------------------------------------------------------ highlight_q2_changes
\* lines 119-120
RaiseNoColumns ==
    /\ pc = "start"
    /\ target_letters = <<>>
    /\ pc' = "error"
    /\ err' = "ValueError: no columns"
    /\ UNCHANGED <<q1_path, q2_path, target_letters, fs, ws, key_header_q2,
                   key_header_q1, df_q1, df_q2, q1_lookup, q2_headers_by_letter,
                   q1_headers_by_letter, r, result, diff_vars, dl_vars>>

\* lines 122-134
RaiseEmptyKeyHeader ==
    /\ pc = "start"
    /\ target_letters # <<>>
    /\ header_from_letter(fs[q2_path], "B") = EmptyStr
    /\ ws' = fs[q2_path]
    /\ key_header_q2' = EmptyStr
    /\ pc' = "error"
    /\ err' = "RuntimeError: column B header is empty"
    /\ UNCHANGED <<q1_path, q2_path, target_letters, fs, key_header_q1, df_q1,
                   df_q2, q1_lookup, q2_headers_by_letter, q1_headers_by_letter,
                   r, result, diff_vars, dl_vars>>

\* lines 122-151
RaiseKeyNotFound ==
    /\ pc = "start"
    /\ target_letters # <<>>
    /\ header_from_letter(fs[q2_path], "B") # EmptyStr
    /\ find_key_header_q1(read_df(fs[q1_path]), header_from_letter(fs[q2_path], "B")) = NoneV
    /\ ws' = fs[q2_path]
    /\ key_header_q2' = header_from_letter(fs[q2_path], "B")
    /\ df_q2' = read_df(fs[q2_path])
    /\ df_q1' = read_df(fs[q1_path])
    /\ pc' = "error"
    /\ err' = "RuntimeError: key header not found in the First workbook"
    /\ UNCHANGED <<q1_path, q2_path, target_letters, fs, key_header_q1, q1_lookup,
                   q2_headers_by_letter, q1_headers_by_letter, r, result, diff_vars, dl_vars>>

\* lines 119-170 when nothing is raised
Prepare ==
    /\ pc = "start"
    /\ target_letters # <<>>
    /\ header_from_letter(fs[q2_path], "B") # EmptyStr
    /\ find_key_header_q1(read_df(fs[q1_path]), header_from_letter(fs[q2_path], "B")) # NoneV
    /\ ws' = fs[q2_path]
    /\ key_header_q2' = header_from_letter(fs[q2_path], "B")
    /\ df_q2' = read_df(fs[q2_path])
    /\ df_q1' = read_df(fs[q1_path])
    /\ key_header_q1' = find_key_header_q1(df_q1', key_header_q2')
    /\ q1_lookup' = build_lookup(df_q1', key_header_q1')
    /\ q2_headers_by_letter' = get_headers_for_letters(ws', target_letters)
    /\ q1_headers_by_letter' = find_matching_headers_in_q1(df_q1', q2_headers_by_letter')
    /\ r' = 2
    /\ result' = [i \in 1..max_row(ws') |-> Pending]
    /\ pc' = "scan"
    /\ UNCHANGED <<err, q1_path, q2_path, target_letters, fs, diff_vars, dl_vars>>

\* lines 173-210, one sheet row; an exception in it ends the run
ScanRow ==
    /\ pc = "scan"
    /\ r <= max_row(ws)
    /\ LET s == scan_row(r)
       IN  /\ ws' = [ws EXCEPT !.fill[r] = s.fill, !.rich[r] = s.rich]
           /\ result' = [result EXCEPT ![r] = [kind |-> s.kind, cells |-> s.cells]]
           /\ pc' = IF s.raised THEN "error" ELSE "scan"
           /\ err' = IF s.raised THEN "ValueError: truth value of an array" ELSE err
           /\ r' = IF s.raised THEN r ELSE r + 1
    /\ UNCHANGED <<q1_path, q2_path, target_letters, fs, key_header_q2,
                   key_header_q1, df_q1, df_q2, q1_lookup, q2_headers_by_letter,
                   q1_headers_by_letter, diff_vars, dl_vars>>

\* lines 212-220
Save ==
    /\ pc = "scan"
    /\ r > max_row(ws)
    /\ fs' = [fs EXCEPT ![out_path(q2_path)] = ws]
    /\ pc' = "done"
    /\ UNCHANGED <<err, q1_path, q2_path, target_letters, ws, key_header_q2,
                   key_header_q1, df_q1, df_q2, q1_lookup, q2_headers_by_letter,
                   q1_headers_by_letter, r, result, diff_vars, dl_vars>>

\* apply_word_diff on its own (lines 87-110)
ApplyWordDiff ==
    /\ diff_pc = "call"
    /\ cell_value' = apply_word_diff(old_text, new_text)
    /\ diff_pc' = "return"
    /\ UNCHANGED <<old_text, new_text, run_vars, dl_vars>>

\* --------------------------------------------------------------- the inputs
SeqsUpTo(S, n) == UNION {[1..k -> S] : k \in 0..n}

colO == column_index_from_string("O")

\* a sheet row with values in columns A, B and O
Cells(a, b, o) ==
    [c \in 1..NumCols |-> IF c = 1 THEN a ELSE IF c = 2 THEN b
                          ELSE IF c = colO THEN o ELSE NoneV]

\* a sheet as loaded from disk: header h and data rows, each <<a, b, o>>
MkSheet(h, rows) ==
    LET n == Len(rows) + 1
    IN  [value |-> [i \in 1..n |-> IF i = 1 THEN Cells(h[1], h[2], h[3])
                                   ELSE Cells(rows[i - 1][1], rows[i - 1][2], rows[i - 1][3])],
         fill  |-> [i \in 1..n |-> [c \in 1..NumCols |-> "none"]],
         rich  |-> [i \in 1..n |-> [c \in 1..NumCols |-> <<>>]]]

StdHeader == << <<"N">>, <<"I","D">>, <<"T">> >>

PathQ1  == <<"d","/","Q","1",".","x">>
PathQ2  == <<"d","/","Q","2",".","x">>
PathQ2H == <<"d","/","Q","2">> \o Highlighted \o <<".","x">>
PathBare  == <<"Q","2",".","x">>
PathBareH == <<"Q","2">> \o Highlighted
PathPool == {PathQ1, PathQ2, PathQ2H, PathBare, PathBareH}
AllPaths == PathPool \cup {out_path(p) : p \in PathPool}

\* the state before the call: the two workbooks on disk and the arguments
Start(p1, p2, sheet1, sheet2, letters) ==
    /\ pc = "start"
    /\ err = ""
    /\ q1_path = p1
    /\ q2_path = p2
    /\ target_letters = letters
    /\ fs = [p \in AllPaths |-> IF p = p2 THEN sheet2
                                ELSE IF p = p1 THEN sheet1 ELSE NoFile]
    /\ ws = NoFile
    /\ key_header_q2 = NoneV
    /\ key_header_q1 = NoneV
    /\ df_q1 = NoFrame
    /\ df_q2 = NoFrame
    /\ q1_lookup = EmptyDict
    /\ q2_headers_by_letter = EmptyDict
    /\ q1_headers_by_letter = EmptyDict
    /\ r = 0
    /\ result = <<>>
    /\ old_text = <<>>
    /\ new_text = <<>>
    /\ cell_value = <<>>
    /\ diff_pc = "idle"
    /\ DownloadIdle

\* keys: every sequence of current rows against every sequence of baseline
\* keys, one compared column
KeyRows2 == {<<NoneV, NoneV>>, <<NoneV, <<"x","x">>>>, <<<<" ","k"," ">>, <<"x","x">>>>,
             <<<<"j">>, <<"x","x">>>>}
Keys1 == {NoneV, <<"k">>, <<"k"," ">>}
\* the baseline value of row i: a different text in every row
BaseVal(i) == [j \in 1..i |-> "x"]

InitKeys ==
    \E rows2 \in SeqsUpTo(KeyRows2, MaxRows2), keys1 \in SeqsUpTo(Keys1, MaxRows1) :
        Start(PathQ1, PathQ2,
              MkSheet(StdHeader, [i \in DOMAIN keys1 |-> <<NoneV, keys1[i], BaseVal(i)>>]),
              MkSheet(StdHeader, [i \in DOMAIN rows2 |-> <<NoneV, rows2[i][1], rows2[i][2]>>]),
              <<"O">>)

\* values: one matched row, every combination of values in columns A and O,
\* every column selector, the baseline header of column O exact, normalized
\* or missing
ValsA == {NoneV, <<"x">>, <<"y">>}
ValsO == {NoneV, <<" ">>, <<"x">>, <<"x"," ">>, <<"x"," ","y">>}
HeadersO1 == {<<"T">>, <<"t"," ">>, <<"Z">>}

InitVals ==
    \E a1 \in ValsA, o1 \in ValsO, a2 \in ValsA, o2 \in ValsO, h \in HeadersO1,
       letters \in SeqsUpTo({"A", "O"}, MaxLetters) :
        Start(PathQ1, PathQ2,
              MkSheet(<< <<"N">>, <<"I","D">>, h >>, << <<a1, <<"k">>, o1>> >>),
              MkSheet(StdHeader, << <<a2, <<"k">>, o2>> >>),
              letters)

\* headers: every key header of the Second workbook against every header row
\* of the First workbook
KeyHeaders2 == {NoneV, <<"I","D">>, <<"I","d">>, <<"I"," ","D">>}
Headers1 == {NoneV, <<"I","D">>, <<"i","d">>, <<"i","D"," ">>, <<"N">>}
HeaderRows1 ==
    {h \in Headers1 \X Headers1 \X Headers1 :
        \A i, j \in 1..3 : (i # j /\ h[i] # NoneV) => h[i] # h[j]}

InitHdrs ==
    \E k2 \in KeyHeaders2, h1 \in HeaderRows1 :
        Start(PathQ1, PathQ2,
              MkSheet(h1, << << <<"k">>, <<"j">>, <<"m">> >> >>),
              MkSheet(<< <<"N">>, k2, <<"T">> >>,
                      << <<NoneV, <<"k">>, <<"x">>>>, <<NoneV, <<"j">>, <<"x">>>>,
                         <<NoneV, <<"m">>, <<"x">>>> >>),
              <<"O">>)

\* paths: every pair of paths; one path for both arguments is one file
InitPaths ==
    \E p1 \in PathPool, p2 \in PathPool :
        LET sheet2 == MkSheet(StdHeader, << <<NoneV, <<"k">>, <<"x","x">>>>,
                                            <<NoneV, <<"j">>, <<"x">>>> >>)
            sheet1 == MkSheet(StdHeader, << <<NoneV, <<"k">>, <<"x">>>> >>)
        IN  Start(p1, p2, IF p1 = p2 THEN sheet2 ELSE sheet1, sheet2, <<"A", "O">>)

\* selectors of every order with repeated letters, over one matched row
InitSelectors ==
    \E a2 \in {<<"x">>, <<"y">>}, o2 \in {<<"x">>, <<"x"," ","y">>},
       letters \in SeqsUpTo({"A", "O"}, MaxSelector) :
        Start(PathQ1, PathQ2,
              MkSheet(StdHeader, << << <<"x">>, <<"k">>, <<"x">> >> >>),
              MkSheet(StdHeader, << <<a2, <<"k">>, o2>> >>),
              letters)

Init == InitKeys \/ InitVals \/ InitHdrs \/ InitPaths \/ InitSelectors

Next ==
    \/ RaiseNoColumns
    \/ RaiseEmptyKeyHeader
    \/ RaiseKeyNotFound
    \/ Prepare
    \/ ScanRow
    \/ Save

Spec == Init /\ [][Next]_vars

\* apply_word_diff alone, on every pair of texts over Chars up to MaxLen
Chars == {"a", "b", " "}

InitDiff ==
    /\ old_text \in SeqsUpTo(Chars, MaxLen)
    /\ new_text \in SeqsUpTo(Chars, MaxLen)
    /\ cell_value = NoneV
    /\ diff_pc = "call"
    /\ pc = "idle"
    /\ err = ""
    /\ q1_path = PathQ1
    /\ q2_path = PathQ2
    /\ target_letters = <<>>
    /\ fs = [p \in AllPaths |-> NoFile]
    /\ ws = NoFile
    /\ key_header_q2 = NoneV
    /\ key_header_q1 = NoneV
    /\ df_q1 = NoFrame
    /\ df_q2 = NoFrame
    /\ q1_lookup = EmptyDict
    /\ q2_headers_by_letter = EmptyDict
    /\ q1_headers_by_letter = EmptyDict
    /\ r = 0
    /\ result = <<>>
    /\ DownloadIdle

NextDiff == ApplyWordDiff

SpecDiff == InitDiff /\ [][NextDiff]_vars

\* ---------------------------------------------------------------- Download.py
\* lines 22-25
valid_options ==
    {<<"E","D","U">>,
     <<"M","A","G">>,
     <<"M","C","C","S","S">>,
     <<"M","E","C","P">>,
     <<"M","L","T","C">>,
     <<"M","N","R">>,
     <<"M","O","H">>,
     <<"M","O","I">>,
     <<"M","T","O","-","H">>,
     <<"M","T","O","-","T">>,
     <<"S","O","L","G","E","N">>}

\* answers that are not a valid short hand
InvalidAnswers == {EmptyStr, <<"e","d","u">>, <<"X","X">>}

\* what simpledialog.askstring returns: the text typed, None when cancelled
Answers == valid_options \cup InvalidAnswers \cup {NoneV}

\* the answers to the n-th prompt: the last one is not answered wrongly
AnswersAt(n) == IF n >= MaxAsks THEN Answers \ InvalidAnswers ELSE Answers

\* str() of the value of selected_ministry in the f-string on line 72
str_ministry(m) == IF m = NoneV THEN <<"N","o","n","e">> ELSE m

\* line 65, today.strftime("%m_%d_%Y")
date_text_ == <<"0","1","_","0","2","_","2","0","2","6">>

TemplatePath == <<"d","/","T",".","x">>

\* lines 68-73
output_path_for(template, selected) ==
    join(dirname(template),
         Concat(<<str_ministry(selected), <<"_">>, date_text_,
                  splitext(basename(template))[2]>>))

\* the Ministry column of the table the query reads
QueryMinistries == {<<"E","D","U">>, <<"M","O","H">>}

\* lines 15-18
AskMinistry ==
    /\ dl_pc = "ask"
    /\ ministry' \in AnswersAt(1)
    /\ asks' = 1
    /\ dl_pc' = "get_ministry"
    /\ UNCHANGED <<selected_ministry, boxes, printed, template_path, output_path,
                   dl_files, df, excel_rows, steps, run_vars, diff_vars>>

\* lines 33-36
GetMinistryCancelled ==
    /\ dl_pc = "get_ministry"
    /\ ministry = NoneV
    /\ boxes' = Append(boxes, "Input Cancelled")
    /\ selected_ministry' = NoneV
    /\ dl_pc' = "report"
    /\ UNCHANGED <<ministry, asks, printed, template_path, output_path,
                   dl_files, df, excel_rows, steps, run_vars, diff_vars>>

\* lines 38-41
GetMinistryValid ==
    /\ dl_pc = "get_ministry"
    /\ ministry # NoneV
    /\ ministry \in valid_options
    /\ printed' = Append(printed, "Selected Ministry:")
    /\ selected_ministry' = ministry
    /\ dl_pc' = "report"
    /\ UNCHANGED <<ministry, asks, boxes, template_path, output_path,
                   dl_files, df, excel_rows, steps, run_vars, diff_vars>>

\* lines 42-52
GetMinistryInvalid ==
    /\ dl_pc = "get_ministry"
    /\ ministry # NoneV
    /\ ministry \notin valid_options
    /\ asks < MaxAsks
    /\ boxes' = Append(boxes, "Invalid Input")
    /\ ministry' \in AnswersAt(asks + 1)
    /\ asks' = asks + 1
    /\ UNCHANGED <<dl_pc, selected_ministry, printed, template_path, output_path,
                   dl_files, df, excel_rows, steps, run_vars, diff_vars>>

\* lines 57-58
ReportSelected ==
    /\ dl_pc = "report"
    /\ selected_ministry # NoneV
    /\ printed' = Append(printed, "The user selected:")
    /\ dl_pc' = "template"
    /\ UNCHANGED <<ministry, asks, selected_ministry, boxes, template_path, output_path,
                   dl_files, df, excel_rows, steps, run_vars, diff_vars>>

\* lines 59-60
ReportExiting ==
    /\ dl_pc = "report"
    /\ selected_ministry = NoneV
    /\ printed' = Append(printed, "No valid ministry was selected. Exiting the script.")
    /\ dl_pc' = "template"
    /\ UNCHANGED <<ministry, asks, selected_ministry, boxes, template_path, output_path,
                   dl_files, df, excel_rows, steps, run_vars, diff_vars>>

\* line 63: the file picked in the dialog, "" when it is cancelled
SelectTemplate ==
    /\ dl_pc = "template"
    /\ template_path' \in dl_files \cup {EmptyStr}
    /\ steps' = Append(steps, "template")
    /\ dl_pc' = "copy"
    /\ UNCHANGED <<ministry, asks, selected_ministry, boxes, printed, output_path,
                   dl_files, df, excel_rows, run_vars, diff_vars>>

\* lines 65-75
CopyTemplate ==
    /\ dl_pc = "copy"
    /\ template_path \in dl_files
    /\ output_path' = output_path_for(template_path, selected_ministry)
    /\ dl_files' = dl_files \cup {output_path'}
    /\ steps' = Append(steps, "copy")
    /\ dl_pc' = "query"
    /\ UNCHANGED <<ministry, asks, selected_ministry, boxes, printed, template_path,
                   df, excel_rows, run_vars, diff_vars>>

\* lines 65-75 when shutil.copy raises FileNotFoundError
CopyFails ==
    /\ dl_pc = "copy"
    /\ template_path \notin dl_files
    /\ output_path' = output_path_for(template_path, selected_ministry)
    /\ steps' = Append(steps, "copy")
    /\ dl_pc' = "error"
    /\ UNCHANGED <<ministry, asks, selected_ministry, boxes, printed, template_path,
                   dl_files, df, excel_rows, run_vars, diff_vars>>

\* lines 78-86
Query ==
    /\ dl_pc = "query"
    /\ df' \in SeqsUpTo(QueryMinistries, MaxQueryRows)
    /\ steps' = Append(steps, "query")
    /\ dl_pc' = "filter"
    /\ UNCHANGED <<ministry, asks, selected_ministry, boxes, printed, template_path,
                   output_path, dl_files, excel_rows, run_vars, diff_vars>>

\* lines 78-86 when the server cannot be reached
QueryFails ==
    /\ dl_pc = "query"
    /\ steps' = Append(steps, "query")
    /\ dl_pc' = "error"
    /\ UNCHANGED <<ministry, asks, selected_ministry, boxes, printed, template_path,
                   output_path, dl_files, df, excel_rows, run_vars, diff_vars>>

\* lines 89-92: the rows of the global ministry
Filter ==
    /\ dl_pc = "filter"
    /\ df' = SelectSeq(df, LAMBDA m : m = ministry)
    /\ steps' = Append(steps, "filter")
    /\ dl_pc' = "write"
    /\ UNCHANGED <<ministry, asks, selected_ministry, boxes, printed, template_path,
                   output_path, dl_files, excel_rows, run_vars, diff_vars>>

\* lines 95-228: the rows written to the copy of the template
WriteExcel ==
    /\ dl_pc = "write"
    /\ excel_rows' = df
    /\ steps' = Append(steps, "write")
    /\ dl_pc' = "done"
    /\ UNCHANGED <<ministry, asks, selected_ministry, boxes, printed, template_path,
                   output_path, dl_files, df, run_vars, diff_vars>>

InitDownload ==
    /\ dl_pc = "ask"
    /\ ministry = Unset
    /\ asks = 0
    /\ selected_ministry = Unset
    /\ boxes = <<>>
    /\ printed = <<>>
    /\ template_path = Unset
    /\ output_path = Unset
    /\ dl_files = {TemplatePath}
    /\ df = <<>>
    /\ excel_rows = <<>>
    /\ steps = <<>>
    /\ pc = "idle"
    /\ err = ""
    /\ q1_path = PathQ1
    /\ q2_path = PathQ2
    /\ target_letters = <<>>
    /\ fs = [p \in AllPaths |-> NoFile]
    /\ ws = NoFile
    /\ key_header_q2 = NoneV
    /\ key_header_q1 = NoneV
    /\ df_q1 = NoFrame
    /\ df_q2 = NoFrame
    /\ q1_lookup = EmptyDict
    /\ q2_headers_by_letter = EmptyDict
    /\ q1_headers_by_letter = EmptyDict
    /\ r = 0
    /\ result = <<>>
    /\ old_text = <<>>
    /\ new_text = <<>>
    /\ cell_value = <<>>
    /\ diff_pc = "idle"

NextDownload ==
    \/ AskMinistry
    \/ GetMinistryCancelled
    \/ GetMinistryValid
    \/ GetMinistryInvalid
    \/ ReportSelected
    \/ ReportExiting
    \/ SelectTemplate
    \/ CopyTemplate
    \/ CopyFails
    \/ Query
    \/ QueryFails
    \/ Filter
    \/ WriteExcel

SpecDownload == InitDownload /\ [][NextDownload]_vars

\* ------------------------------------------------- the tables, as the spec
\* reads them: what the claims below compare the run against
Prepared == pc \in {"scan", "done"} \/ (pc = "error" /\ result # <<>>)
SheetRows == 2..max_row(ws)
Scanned(i) == Prepared /\ i \in SheetRows /\ result[i].kind # "Pending"
\* the scan of row i ended in an exception
Broken(i) == pc = "error" /\ i = r

\* x without its leading and trailing whitespace, "" for an empty cell
Trimmed(x) ==
    LET ink == IF x = NoneV THEN {} ELSE {i \in DOMAIN x : x[i] \notin Whitespace}
    IN  IF ink = {} THEN <<>>
        ELSE SubSeq(x, CHOOSE a \in ink : \A j \in ink : a <= j,
                       CHOOSE b \in ink : \A j \in ink : j <= b)

Largest(S) == CHOOSE n \in S : \A m \in S : m <= n

\* the key of current sheet row i: its cell in column B
CurKey(i) == Trimmed(ws.value[i][column_index_from_string("B")])
\* the rows of the current table: the sheet rows down to the last one with data
TableRows == {i \in SheetRows : \E j \in SheetRows : j >= i /\ \E c \in 1..NumCols : ws.value[j][c] # NoneV}
\* the key column of the baseline table and the key of its row n
KeyCol1 == CHOOSE c \in DOMAIN df_q1.columns : df_q1.columns[c] = key_header_q1
BaseKey(n) == Trimmed(df_q1.rows[n][KeyCol1])
BaseKeys == {BaseKey(n) : n \in DOMAIN df_q1.rows} \ {<<>>}
\* the last baseline row carrying key k
LastBaseRow(k) == Largest({n \in DOMAIN df_q1.rows : BaseKey(n) = k})
\* the header of the current table at column letter L
HeaderAt(L) ==
    LET v == ws.value[1][column_index_from_string(L)]
    IN  IF v = NoneV THEN <<>> ELSE v
ExactCols(h) == {c \in DOMAIN df_q1.columns : df_q1.columns[c] = h}
NormCols(h) ==
    LET n == normalize_colname(h)
    IN  {c \in DOMAIN df_q1.columns : normalize_colname(df_q1.columns[c]) = n}
\* the baseline column that header h resolves to, 0 when it resolves to none
BaseCol(h) ==
    LET exact == ExactCols(h)
        norm == NormCols(h)
    IN  IF exact # {} THEN Largest(exact)
        ELSE IF norm # {} THEN Largest(norm) ELSE 0
\* the baseline and the current value of the pair (current row i, letter L)
BaseValue(i, L) ==
    LET col == BaseCol(HeaderAt(L))
    IN  IF col = 0 THEN <<>> ELSE Trimmed(df_q1.rows[LastBaseRow(CurKey(i))][col])
CurValue(i, L) == Trimmed(ws.value[i][column_index_from_string(L)])

\* ------------------------------------------------------------------ claims
\* C1: a scanned row of the current sheet is NewRow exactly when its trimmed
\* key is non-empty and no baseline row carries it; a NewRow row gets no
\* per-column class, no word diff, and the row fill in every cell.
C1_NewRowIffKeyAbsent ==
    \A i \in SheetRows : Scanned(i) =>
        /\ (result[i].kind = "NewRow") <=> (CurKey(i) # <<>> /\ CurKey(i) \notin BaseKeys)
        /\ result[i].kind = "NewRow" =>
              /\ result[i].cells = <<>>
              /\ \A c \in 1..NumCols : ws.rich[i][c] = <<>> /\ ws.fill[i][c] = "blue"

\* a finished run with a new row and a matched row
C1_Witness ==
    /\ pc = "done"
    /\ \E i, j \in SheetRows :
          /\ result[i].kind = "NewRow" /\ CurKey(i) # <<>>
          /\ result[j].kind = "Compared" /\ result[j].cells # <<>>

C3_ClearedWhenEmptied ==
    \A i \in TableRows : (Scanned(i) /\ result[i].kind = "Compared") =>
        /\ Broken(i) \/ Len(result[i].cells) = Len(target_letters)
        /\ \A j \in DOMAIN result[i].cells :
              LET L == target_letters[j]
              IN  (CurValue(i, L) = <<>> /\ BaseValue(i, L) # <<>>) =>
                     /\ result[i].cells[j].cls = "Cleared"
                     /\ ws.fill[i][column_index_from_string(L)] = "pink"
                     /\ ws.rich[i][column_index_from_string(L)] = <<>>

\* a matched row with an emptied cell, classed
C3_Witness ==
    \E i \in TableRows :
        /\ Scanned(i) /\ result[i].kind = "Compared"
        /\ \E j \in DOMAIN result[i].cells :
              /\ BaseValue(i, target_letters[j]) # <<>>
              /\ CurValue(i, target_letters[j]) = <<>>
              /\ ws.value[i][column_index_from_string(target_letters[j])] # NoneV

\* C4: every compared pair has exactly one class: Unchanged (no fill) exactly
\* when the trimmed values are equal, Cleared (pink) exactly when the baseline
\* value is non-empty and the current value empty, Changed (blue) exactly when
\* the values differ and the pair is not Cleared.
C4_OneClassPerPair ==
    \A i \in TableRows : (Scanned(i) /\ result[i].kind = "Compared") =>
        \A j \in DOMAIN result[i].cells :
            LET L == target_letters[j]
                cls == result[i].cells[j].cls
                base == BaseValue(i, L)
                cur == CurValue(i, L)
                cleared == base # <<>> /\ cur = <<>>
                fill == ws.fill[i][column_index_from_string(L)]
            IN  /\ cls \in {"Cleared", "Changed", "Unchanged"}
                /\ cls = "Unchanged" <=> cur = base
                /\ cls = "Cleared" <=> cleared
                /\ cls = "Changed" <=> (cur # base /\ ~cleared)
                /\ fill = (IF cls = "Cleared" THEN "pink"
                           ELSE IF cls = "Changed" THEN "blue" ELSE "none")

\* a finished run with an Unchanged pair whose raw values differ, beside a
\* Changed pair
C4_Witness ==
    /\ pc = "done"
    /\ \E i \in TableRows : \E j, k \in DOMAIN result[i].cells :
          /\ result[i].cells[j].cls = "Unchanged"
          /\ CurValue(i, target_letters[j]) # <<>>
          /\ result[i].cells[k].cls = "Changed"

\* the whitespace-delimited tokens of s, read off its characters
TokenStarts(s) ==
    {a \in DOMAIN s : s[a] \notin Whitespace /\ (a = 1 \/ s[a - 1] \in Whitespace)}
NumTokens(s) == Cardinality(TokenStarts(s))
Token(s, n) ==
    LET a == CHOOSE x \in TokenStarts(s) :
                Cardinality({y \in TokenStarts(s) : y < x}) = n - 1
    IN  SubSeq(s, a, Largest({b \in a..Len(s) : \A j \in a..b : s[j] \notin Whitespace}))

\* C5: the word diff has one entry per whitespace-delimited token of the
\* current value, in order; entry i is the same (not red) exactly when the
\* baseline has a token i and it is the identical string.
C5_PositionalWordDiff ==
    diff_pc = "return" =>
        /\ Len(cell_value) = NumTokens(new_text)
        /\ \A i \in 1..NumTokens(new_text) :
              /\ Trimmed(cell_value[i].text) = Token(new_text, i)
              /\ ~cell_value[i].red <=>
                    (i <= NumTokens(old_text) /\ Token(old_text, i) = Token(new_text, i))

\* a token inserted in front: the second current token is the first baseline
\* token and is marked different
C5_Witness ==
    /\ diff_pc = "return"
    /\ NumTokens(new_text) = 2 /\ NumTokens(old_text) = 1
    /\ Token(new_text, 2) = Token(old_text, 1)
    /\ cell_value[1].red /\ cell_value[2].red

\* the three conditions of C6, on the files before the call
NoColumns == target_letters = <<>>
NoKeyHeader == fs[q2_path].value[1][column_index_from_string("B")] = NoneV
KeyUnresolved ==
    LET h == fs[q2_path].value[1][column_index_from_string("B")]
        cols == read_df(fs[q1_path]).columns
    IN  \A c \in DOMAIN cols : cols[c] # h /\ normalize_colname(cols[c]) # normalize_colname(h)

\* C6: with an empty column selector, an empty key header in the current
\* table or a key header that resolves in no baseline header, the call ends
\* in an error in its first step: no row is scanned, no cell is styled and no
\* file is written, and nothing happens after the error.
C6_FailsBeforeAnyRow ==
    [][/\ pc # "error"
       /\ (pc = "start" /\ (NoColumns \/ NoKeyHeader \/ KeyUnresolved)) =>
             /\ pc' = "error"
             /\ err' # ""
             /\ fs' = fs
             /\ result' = <<>>
             /\ r' = 0
             /\ ws' \in {NoFile, fs[q2_path]}]_vars

\* the error of an unresolved key header, raised with both tables loaded
C6_Witness ==
    /\ pc = "error"
    /\ err = "RuntimeError: key header not found in the First workbook"
    /\ df_q1.rows # <<>>
    /\ result = <<>>

C8_LastBaselineRowWins ==
    Prepared =>
        /\ DOMAIN q1_lookup = BaseKeys
        /\ \A k \in DOMAIN q1_lookup : q1_lookup[k] = df_q1.rows[LastBaseRow(k)]
        /\ \A i \in TableRows : (Scanned(i) /\ result[i].kind = "Compared") =>
              \A j \in DOMAIN result[i].cells :
                  LET L == target_letters[j]
                      col == BaseCol(HeaderAt(L))
                      base == IF col = 0 THEN <<>> ELSE Trimmed(q1_lookup[CurKey(i)][col])
                  IN  /\ base = BaseValue(i, L)
                      /\ result[i].cells[j].cls = "Unchanged" <=> CurValue(i, L) = base

\* two baseline rows share a key, a third has none, and a current row with
\* the shared key is compared
C8_Witness ==
    /\ pc = "done"
    /\ \E a, b \in DOMAIN df_q1.rows :
          /\ a < b /\ BaseKey(a) = BaseKey(b) /\ BaseKey(a) # <<>>
          /\ df_q1.rows[a] # df_q1.rows[b]
          /\ \E i \in TableRows : result[i].kind = "Compared" /\ CurKey(i) = BaseKey(a)

\* a selected column whose header resolves in no baseline header
Unresolved(L) == ExactCols(HeaderAt(L)) = {} /\ NormCols(HeaderAt(L)) = {}

\* C9: a selected column whose header resolves in the baseline neither
\* exactly nor normalized raises nothing; every pair of it in a matched row is
\* Changed when the current value is non-empty and Unchanged when it is
\* empty, never Cleared.
C9_MissingBaselineColumn ==
    /\ (pc = "error" /\ result = <<>>) => (NoColumns \/ NoKeyHeader \/ KeyUnresolved)
    /\ \A i \in TableRows : (Scanned(i) /\ result[i].kind = "Compared") =>
          \A j \in DOMAIN result[i].cells :
              Unresolved(target_letters[j]) =>
                  result[i].cells[j].cls =
                      (IF CurValue(i, target_letters[j]) # <<>> THEN "Changed" ELSE "Unchanged")

\* a finished run over a column missing from the baseline, with an empty and
\* a non-empty current value in it
C9_Witness ==
    /\ pc = "done"
    /\ \E i \in TableRows : \E j \in DOMAIN result[i].cells :
          /\ Unresolved(target_letters[j])
          /\ result[i].cells[j].cls = "Changed"
          /\ \E n \in DOMAIN df_q1.rows : \E c \in {1, colO} : df_q1.rows[n][c] # NoneV

\* C10 as stated: no step of the run changes the file at the first or at the
\* second path.
C10_InputsNotMutated ==
    [][fs'[q1_path] = fs[q1_path] /\ fs'[q2_path] = fs[q2_path]]_vars

\* the selector entries of row i that name column c
EntriesAt(i, c) ==
    {j \in DOMAIN result[i].cells :
        column_index_from_string(result[i].cells[j].letter) = c}

\* C13: a cell holds a word diff exactly when a pair of it was classed
\* Changed and its column letter is O, S or T; every Changed pair has a
\* non-empty current value; Cleared, Unchanged and NewRow cells hold none.
C13_WordDiffOnlyOnChanged ==
    Prepared =>
        \A i \in 1..max_row(ws) :
            /\ \A c \in 1..NumCols :
                  ws.rich[i][c] # <<>> <=>
                      \E j \in EntriesAt(i, c) :
                          /\ result[i].cells[j].cls = "Changed"
                          /\ result[i].cells[j].letter \in {"O", "S", "T"}
            /\ \A j \in DOMAIN result[i].cells :
                  result[i].cells[j].cls = "Changed" =>
                      CurValue(i, result[i].cells[j].letter) # <<>>
            /\ result[i].kind # "Compared" => result[i].cells = <<>>

\* a finished run with a Changed pair in column O holding a word diff and a
\* Changed pair in column A holding none
C13_Witness ==
    /\ pc = "done"
    /\ \E i \in TableRows : \E j, k \in DOMAIN result[i].cells :
          /\ result[i].cells[j].letter = "O" /\ result[i].cells[j].cls = "Changed"
          /\ ws.rich[i][colO] # <<>>
          /\ result[i].cells[k].letter = "A" /\ result[i].cells[k].cls = "Changed"
          /\ ws.rich[i][1] = <<>>

\* C14: against the sheet as loaded, the run changes the fill of every cell
\* of a NewRow row and the fill or value of cells of matched rows in selected
\* columns classed Cleared or Changed, and no other cell: not the header row,
\* a non-selected column, an Unchanged cell, a row with an empty key or a
\* sheet row after the loaded table; the saved file is the sheet so changed.
C14_OnlyClassifiedCellsChange ==
    Prepared =>
        /\ ws.value = fs[q2_path].value
        /\ \A i \in 1..max_row(ws) : \A c \in 1..NumCols :
              (ws.fill[i][c] # fs[q2_path].fill[i][c] \/ ws.rich[i][c] # fs[q2_path].rich[i][c]) =>
                  \/ result[i].kind = "NewRow"
                  \/ /\ result[i].kind = "Compared"
                     /\ \E j \in EntriesAt(i, c) : result[i].cells[j].cls \in {"Cleared", "Changed"}
        /\ \A i \in 1..max_row(ws) : result[i].kind = "NewRow" =>
              \A c \in 1..NumCols : ws.fill[i][c] = "blue" /\ ws.rich[i][c] = <<>>
        /\ result[1].kind = "Pending"
        /\ pc = "done" => fs[out_path(q2_path)] = ws

\* a finished run over a new row, a row with an empty key that holds a value
\* or a sheet row after the loaded table, all saved
C14_Witness ==
    /\ pc = "done"
    /\ \E i, j \in SheetRows :
          /\ result[i].kind = "NewRow"
          /\ result[j].kind \in {"NoMatch", "NotLoaded"}
          /\ \A c \in 1..NumCols : fs[out_path(q2_path)].fill[j][c] = "none"

\* the class given to the j-th selector entry in the outcome x of a row
PairClass(x, j) == IF j \in DOMAIN x.cells THEN x.cells[j].cls ELSE "none"

\* the outcome of row i had its cell in column c held v when loaded
RowOutcomeWith(i, c, v) ==
    compare_letters([fill |-> fs[q2_path].fill[i], rich |-> fs[q2_path].rich[i],
                     cells |-> <<>>, raised |-> FALSE],
                    [fs[q2_path].value[i] EXCEPT ![c] = v],
                    q1_lookup[CurKey(i)], target_letters)

\* values to put in the other column
OtherValues == {NoneV, <<"x">>, <<"x"," ","y">>}

\* C11: the class of a (row, column) pair depends on that pair's values
\* alone: for every selector, repeated letters included, and every matched
\* row, giving another selected column of the row a different current value
\* leaves the class of every entry of this column as it is.
C11_PairsIndependent ==
    Prepared =>
        \A i \in SheetRows :
            (result[i].kind = "Compared") =>
                \A j, k \in DOMAIN target_letters :
                    target_letters[j] # target_letters[k] =>
                        \A v \in OtherValues :
                            PairClass(RowOutcomeWith(i, column_index_from_string(target_letters[k]), v), j)
                                = PairClass(result[i], j)

\* the line that announces the exit has been printed
ExitReported ==
    \E n \in DOMAIN printed :
        printed[n] = "No valid ministry was selected. Exiting the script."

\* C15: when get_ministry returns None the script ends where it says so: no
\* section after the report (template selection, copy, query, filter, write
\* to Excel) runs once "No valid ministry was selected. Exiting the script."
\* is printed; and get_ministry returns None or a valid short hand.
C15_ExitsWhenCancelled ==
    /\ ExitReported => steps = <<>>
    /\ selected_ministry \in valid_options \cup {NoneV, Unset}

====
